---- MODULE Spec2Model ----
(***************************************************************************)
(* Duplicate / parallel subtree detection over one trace (SuperGrok.py).   *)
(*                                                                         *)
(* The state is the state of one run of find_duplicate_spans: the parsed   *)
(* span list and the two tolerances, then span_dict / hierarchy / roots    *)
(* built by build_span_hierarchy, the depth map and the parent groups, and *)
(* the locals of cluster_parallel_subtrees while it works through one      *)
(* group.  compare_subtrees and the metrics are operators over that state. *)
(*                                                                         *)
(* Strings that the program concatenates or orders are kept as sequences   *)
(* of words: the label "GET /users" is <<"GET", "/users">>.  Span          *)
(* identities are numbers; EmptyID stands for the empty string, the only   *)
(* identity Python treats as false.                                        *)
(***************************************************************************)
EXTENDS Integers, Sequences, FiniteSets, TLC

VARIABLES
    spans,             \* the parsed span list (records), in file order
    start_difference,  \* start tolerance, microseconds
    gap_difference,    \* gap tolerance, microseconds (negative: strict overlap)
    pc,                \* position in find_duplicate_spans
    span_dict,         \* spanID -> span (normalized)
    dict_keys,         \* insertion order of span_dict
    hierarchy,         \* parent spanID -> sequence of child spanIDs
    roots,             \* sequence of root spanIDs
    depth_map,         \* spanID -> hierarchy depth
    parent_groups,     \* parent spanID -> sequence of grouped spanIDs
    group_keys,        \* insertion order of parent_groups
    group_idx,         \* index of the group being processed
    sorted_spans,      \* cluster_parallel_subtrees: spans sorted by startTime
    remaining,         \* cluster_parallel_subtrees: the pool
    root,              \* cluster_parallel_subtrees: current candidate root
    cluster,           \* cluster_parallel_subtrees: cluster being grown
    scan_i,            \* cluster_parallel_subtrees: scan index i (0-based)
    clusters,          \* cluster_parallel_subtrees: clusters formed so far
    popped,            \* history: spanIDs taken as candidate root in this group
    duplicate_groups   \* parent spanID -> clusters returned for that parent

vars == <<spans, start_difference, gap_difference, pc, span_dict, dict_keys,
          hierarchy, roots, depth_map, parent_groups, group_keys, group_idx,
          sorted_spans, remaining, root, cluster, scan_i, clusters, popped,
          duplicate_groups>>

-----------------------------------------------------------------------------
(* Bounds of the input family and program constants                         *)

MaxSiblings == 3
MaxDepth == 2

DefaultStartDifference == 500000
DefaultGapDifference == 150000
ShortDuration == 20000
MaxDurationDiff == 100000
EmptyID == 0

NoSpan == -1
EmptyMap == [x \in {} |-> x]

Min2(a, b) == IF a < b THEN a ELSE b
Max2(a, b) == IF a > b THEN a ELSE b
Abs(a) == IF a < 0 THEN -a ELSE a

Range(s) == {s[i] : i \in 1..Len(s)}

RECURSIVE SumSeq(_)
SumSeq(s) == IF s = <<>> THEN 0 ELSE Head(s) + SumSeq(Tail(s))

RECURSIVE FlattenSeq(_)
FlattenSeq(ss) == IF ss = <<>> THEN <<>> ELSE Head(ss) \o FlattenSeq(Tail(ss))

-----------------------------------------------------------------------------
(* Words and labels                                                         *)

\* Python's string order on the words that occur, smallest first.
WordOrder ==
    << "", "/*", "/orders", "/users", "DELETE", "GET", "INSERT", "None",
       "QUERY", "SELECT", "UNKNOWN", "UPDATE", "fetch", "handle", "orders",
       "row", "unknown_table", "users" >>

WordRank(w) == CHOOSE i \in 1..Len(WordOrder) : WordOrder[i] = w

\* Order key of a label of one or two words: lexicographic on the words
\* (the separating blank sorts below every other character that occurs).
NameKey(label) ==
    WordRank(label[1]) * (Len(WordOrder) + 1)
        + (IF Len(label) >= 2 THEN WordRank(label[2]) ELSE 0)

\* db.statement values and the keyword each starts with.
StmtSelect == "SELECT * FROM users"
StmtInsert == "INSERT INTO users VALUES (1)"
StmtUpdate == "UPDATE users SET a = 1"
StmtDelete == "DELETE FROM users"
StmtCall == "CALL refresh()"

StartsWith(stmt, kw) ==
    \/ kw = "SELECT" /\ stmt = StmtSelect
    \/ kw = "INSERT" /\ stmt = StmtInsert
    \/ kw = "UPDATE" /\ stmt = StmtUpdate
    \/ kw = "DELETE" /\ stmt = StmtDelete

\* urlparse(url).path on the URLs that occur.
UrlUsers == "http://api/users"
UrlBare == "http://api"
extract_path_from_url(url) == IF url = UrlUsers THEN "/users" ELSE ""

HasTag(tags, k) == k \in DOMAIN tags
\* tags.get(k): None when the key is absent.  None and "" are both false.
Truthy(tags, k) == HasTag(tags, k) /\ tags[k] # ""

\* Variant: the database statement is looked at before the HTTP method.
NormalizedNameDbFirst(span) ==
    LET tags == span.tags IN
    IF HasTag(tags, "db.statement")
    THEN LET stmt == tags["db.statement"]
             table == IF HasTag(tags, "db.sql.table") THEN tags["db.sql.table"]
                      ELSE "unknown_table"
         IN IF StartsWith(stmt, "SELECT") THEN <<"SELECT", table>>
            ELSE IF StartsWith(stmt, "INSERT") THEN <<"INSERT", table>>
            ELSE IF StartsWith(stmt, "UPDATE") THEN <<"UPDATE", table>>
            ELSE IF StartsWith(stmt, "DELETE") THEN <<"DELETE", table>>
            ELSE <<"QUERY", table>>
    ELSE IF HasTag(tags, "http.request.method") \/ HasTag(tags, "http.method")
    THEN LET method == IF Truthy(tags, "http.request.method")
                         THEN tags["http.request.method"]
                       ELSE IF HasTag(tags, "http.method")
                         THEN tags["http.method"]
                       ELSE "None"
             direct == IF Truthy(tags, "http.target") THEN <<tags["http.target"]>>
                       ELSE IF Truthy(tags, "url.path") THEN <<tags["url.path"]>>
                       ELSE IF Truthy(tags, "http.route") THEN <<tags["http.route"]>>
                       ELSE IF Truthy(tags, "url.full") THEN <<tags["url.full"]>>
                       ELSE <<>>
             path == IF direct # <<>> THEN direct[1]
                     ELSE IF HasTag(tags, "http.url")
                       THEN extract_path_from_url(tags["http.url"])
                     ELSE "/*"
         IN <<method, path>>
    ELSE span.operationName

\* Lines 56-76: the canonical operation label of a span.
NormalizedName(span) ==
    LET tags == span.tags IN
    IF HasTag(tags, "http.request.method") \/ HasTag(tags, "http.method")
    THEN LET method == IF Truthy(tags, "http.request.method")
                         THEN tags["http.request.method"]
                       ELSE IF HasTag(tags, "http.method")
                         THEN tags["http.method"]
                       ELSE "None"
             direct == IF Truthy(tags, "http.target") THEN <<tags["http.target"]>>
                       ELSE IF Truthy(tags, "url.path") THEN <<tags["url.path"]>>
                       ELSE IF Truthy(tags, "http.route") THEN <<tags["http.route"]>>
                       ELSE IF Truthy(tags, "url.full") THEN <<tags["url.full"]>>
                       ELSE <<>>
             path == IF direct # <<>> THEN direct[1]
                     ELSE IF HasTag(tags, "http.url")
                       THEN extract_path_from_url(tags["http.url"])
                     ELSE "/*"
         IN <<method, path>>
    ELSE IF HasTag(tags, "db.statement")
    THEN LET stmt == tags["db.statement"]
             table == IF HasTag(tags, "db.sql.table") THEN tags["db.sql.table"]
                      ELSE "unknown_table"
         IN IF StartsWith(stmt, "SELECT") THEN <<"SELECT", table>>
            ELSE IF StartsWith(stmt, "INSERT") THEN <<"INSERT", table>>
            ELSE IF StartsWith(stmt, "UPDATE") THEN <<"UPDATE", table>>
            ELSE IF StartsWith(stmt, "DELETE") THEN <<"DELETE", table>>
            ELSE <<"QUERY", table>>
    ELSE span.operationName

\* Line 114-115.
is_db_span(span) == HasTag(span.tags, "db.statement")

-----------------------------------------------------------------------------
(* build_span_hierarchy                                                     *)

\* Line 77: operationName is overwritten in place on every span of the list.
NormalizeAll(ss) ==
    [i \in 1..Len(ss) |-> [ss[i] EXCEPT !.operationName = NormalizedName(ss[i])]]

\* Line 79: span_dict[span["spanID"]] = span.  A key keeps the position of
\* its first insertion and the value of its last.
RECURSIVE FirstOccurrences(_)
FirstOccurrences(seq) ==
    IF seq = <<>> THEN <<>>
    ELSE LET front == FirstOccurrences(SubSeq(seq, 1, Len(seq) - 1))
             x == seq[Len(seq)]
         IN IF x \in Range(front) THEN front ELSE Append(front, x)

DictKeys(ss) == FirstOccurrences([i \in 1..Len(ss) |-> ss[i].spanID])

DictOf(ss) ==
    [id \in {ss[i].spanID : i \in 1..Len(ss)} |->
        ss[CHOOSE i \in 1..Len(ss) :
              /\ ss[i].spanID = id
              /\ \A j \in (i + 1)..Len(ss) : ss[j].spanID # id]]

\* Variant: the loop over the references has no break.
RECURSIVE LinkedParentsNoBreak(_, _)
LinkedParentsNoBreak(refs, known) ==
    IF refs = <<>> THEN <<>>
    ELSE IF Head(refs).refType = "CHILD_OF" /\ Head(refs).spanID \in known
         THEN <<Head(refs).spanID>> \o LinkedParentsNoBreak(Tail(refs), known)
         ELSE LinkedParentsNoBreak(Tail(refs), known)

\* Lines 84-89: the parents a span is appended to: the target of the first
\* reference that is CHILD_OF and names a known span, then break.
RECURSIVE LinkedParents(_, _)
LinkedParents(refs, known) ==
    IF refs = <<>> THEN <<>>
    ELSE IF Head(refs).refType = "CHILD_OF" /\ Head(refs).spanID \in known
         THEN <<Head(refs).spanID>>
         ELSE LinkedParents(Tail(refs), known)

\* parent_id after the loop over the references (None is NoSpan).
ParentIdOf(refs, known) ==
    LET linked == LinkedParents(refs, known)
    IN IF linked = <<>> THEN NoSpan ELSE linked[Len(linked)]

\* Line 90: "not parent_id" holds for None and for the empty string.
NotParentId(parent_id) == parent_id = NoSpan \/ parent_id = EmptyID

\* How often parent q occurs among the parents a span was linked to.
Occurrences(seq, x) == Cardinality({i \in 1..Len(seq) : seq[i] = x})

\* Lines 81-89: hierarchy[parent_id].append(span), in span_dict order.
RECURSIVE Repeat(_, _)
Repeat(x, n) == IF n = 0 THEN <<>> ELSE <<x>> \o Repeat(x, n - 1)

BuildHierarchy(dict, keys) ==
    LET known == DOMAIN dict
        linked(id) == LinkedParents(dict[id].references, known)
        parents == UNION {Range(linked(id)) : id \in known}
    IN [q \in parents |->
          FlattenSeq([k \in 1..Len(keys) |->
                         Repeat(keys[k], Occurrences(linked(keys[k]), q))])]

\* Lines 90-92.
BuildRoots(dict, keys) ==
    SelectSeq(keys, LAMBDA id :
        NotParentId(ParentIdOf(dict[id].references, DOMAIN dict)))

\* hierarchy.get(span_id, [])
Kids(h, id) == IF id \in DOMAIN h THEN h[id] ELSE <<>>

RECURSIVE MaxOver(_)
MaxOver(s) == IF Len(s) = 1 THEN s[1] ELSE Max2(Head(s), MaxOver(Tail(s)))

\* Variant: only the first child is followed.
RECURSIVE get_hierarchy_depth_first_child(_, _)
get_hierarchy_depth_first_child(h, span_id) ==
    LET children == Kids(h, span_id)
    IN IF children = <<>> THEN 0
       ELSE 1 + get_hierarchy_depth_first_child(h, children[1])

\* Lines 96-105.
RECURSIVE get_hierarchy_depth(_, _)
get_hierarchy_depth(h, span_id) ==
    LET children == Kids(h, span_id)
    IN IF children = <<>> THEN 0
       ELSE 1 + MaxOver([i \in 1..Len(children) |->
                            get_hierarchy_depth(h, children[i])])

\* Lines 107-112.
RECURSIVE count_total_spans(_, _)
count_total_spans(h, span_id) ==
    LET kids == Kids(h, span_id)
    IN 1 + SumSeq([i \in 1..Len(kids) |-> count_total_spans(h, kids[i])])

\* Lines 171-175.
RECURSIVE get_max_depth(_, _, _)
get_max_depth(h, span_id, current_depth) ==
    LET kids == Kids(h, span_id)
    IN IF kids = <<>> THEN current_depth
       ELSE MaxOver([i \in 1..Len(kids) |->
                        get_max_depth(h, kids[i], current_depth + 1)])

\* sorted(seq, key=...): Python's sort is stable.
StableSortBy(seq, Key(_)) ==
    LET n == Len(seq)
        pos(i) == 1 + Cardinality({j \in 1..n : Key(seq[j]) < Key(seq[i])})
                    + Cardinality({j \in 1..(i - 1) : Key(seq[j]) = Key(seq[i])})
    IN [k \in 1..n |-> seq[CHOOSE i \in 1..n : pos(i) = k]]

-----------------------------------------------------------------------------
(* compare_subtrees                                                         *)

\* Lines 159-160: children sorted by operationName only.
SortedChildren(span_id) ==
    StableSortBy(Kids(hierarchy, span_id),
                 LAMBDA c : NameKey(span_dict[c].operationName))

\* Variant: the processID is not looked at.
ProcessMismatchNever(s1, s2) == FALSE

\* Lines 163-169.
ProcessMismatch(s1, s2) == s1.processID # s2.processID

\* Variant: the depth threshold is off by one.
RootDepthMismatchBelowOne(depth, depth1, depth2) ==
    depth = 0 /\ (depth1 < 1 \/ depth2 < 1 \/ depth1 # depth2)

\* Line 180.
RootDepthMismatch(depth, depth1, depth2) ==
    depth = 0 /\ (depth1 < 2 \/ depth2 < 2 \/ depth1 # depth2)

\* Variant: the span counts are not looked at.
SpanCountMismatchNever(span_count1, span_count2) == FALSE

\* Lines 184-189.
SpanCountMismatch(span_count1, span_count2) == span_count1 # span_count2

\* Variant: a difference equal to the tolerance is rejected.
StartTooFarInclusive(s1, s2) == Abs(s1.startTime - s2.startTime) >= start_difference

\* Variant: the difference is taken without abs().
StartTooFarSigned(s1, s2) == s1.startTime - s2.startTime > start_difference

\* Lines 192-196.
StartTooFar(s1, s2) == Abs(s1.startTime - s2.startTime) > start_difference

\* Variant: a gap equal to the tolerance is rejected.
GapTooWideInclusive(s1, s2) ==
    LET end1 == s1.startTime + s1.duration
        end2 == s2.startTime + s2.duration
    IN IF end1 < s2.startTime
         THEN gap_difference >= 0 /\ s2.startTime - end1 >= gap_difference
       ELSE IF end2 < s1.startTime
         THEN gap_difference >= 0 /\ s1.startTime - end2 >= gap_difference
       ELSE FALSE

\* Lines 197-210.
GapTooWide(s1, s2) ==
    LET end1 == s1.startTime + s1.duration
        end2 == s2.startTime + s2.duration
    IN IF end1 < s2.startTime
         THEN gap_difference >= 0 /\ s2.startTime - end1 > gap_difference
       ELSE IF end2 < s1.startTime
         THEN gap_difference >= 0 /\ s1.startTime - end2 > gap_difference
       ELSE FALSE

\* Lines 211-217.
OverlapTooSmall(s1, s2) ==
    LET end1 == s1.startTime + s1.duration
        end2 == s2.startTime + s2.duration
        overlap == Min2(end1, end2) - Max2(s1.startTime, s2.startTime)
    IN gap_difference < 0 /\ overlap < -gap_difference

\* Variant: the 20% rule applies to short spans as well.
DurationMismatchNoShort(s1, s2) ==
    LET duration_diff == Abs(s1.duration - s2.duration)
        max_duration == Max2(s1.duration, s2.duration)
    IN \/ duration_diff > MaxDurationDiff
       \/ 5 * duration_diff > max_duration

\* Lines 218-233.  duration_diff > 0.2 * max_duration is 5 * diff > max on
\* the integers.
DurationMismatch(s1, s2) ==
    LET duration_diff == Abs(s1.duration - s2.duration)
        max_duration == Max2(s1.duration, s2.duration)
    IN IF s1.duration < ShortDuration /\ s2.duration < ShortDuration
         THEN duration_diff > MaxDurationDiff
       ELSE \/ duration_diff > MaxDurationDiff
            \/ 5 * duration_diff > max_duration

\* Variant: the labels are not compared.
NameMismatchNever(s1, s2) == FALSE

\* Variant: two QUERY labels are taken as equal whether or not the spans are
\* database spans.
NameMismatchQueryOnly(s1, s2) ==
    /\ s1.operationName # s2.operationName
    /\ ~(/\ s1.operationName[1] = "QUERY"
         /\ s2.operationName[1] = "QUERY")

\* Lines 235-238.
NameMismatch(s1, s2) ==
    /\ s1.operationName # s2.operationName
    /\ ~(/\ is_db_span(s1) /\ is_db_span(s2)
         /\ s1.operationName[1] = "QUERY"
         /\ s2.operationName[1] = "QUERY")

\* Line 252: only the first span's children decide the branch.
AnyDbChild(children1, children2) ==
    \E i \in 1..Len(children1) : is_db_span(span_dict[children1[i]])

QueryCount(children) ==
    Cardinality({i \in 1..Len(children) : is_db_span(span_dict[children[i]])})

\* Lines 256-258.
QueryCountMismatch(query_count1, query_count2) == query_count1 # query_count2

\* Variant: the historical rule that tolerates one span, one child and one
\* database child more on either side.
RECURSIVE compare_subtrees_off_by_one(_, _, _)
compare_subtrees_off_by_one(span1, span2, depth) ==
    LET s1 == span_dict[span1]
        s2 == span_dict[span2]
        children1 == SortedChildren(span1)
        children2 == SortedChildren(span2)
        depth1 == get_max_depth(hierarchy, span1, 0)
        depth2 == get_max_depth(hierarchy, span2, 0)
    IN IF ProcessMismatch(s1, s2) THEN FALSE
       ELSE IF RootDepthMismatch(depth, depth1, depth2) THEN FALSE
       ELSE IF Abs(count_total_spans(hierarchy, span1)
                     - count_total_spans(hierarchy, span2)) > 1 THEN FALSE
       ELSE IF depth = 0 /\ StartTooFar(s1, s2) THEN FALSE
       ELSE IF depth = 0 /\ GapTooWide(s1, s2) THEN FALSE
       ELSE IF depth = 0 /\ OverlapTooSmall(s1, s2) THEN FALSE
       ELSE IF depth = 0 /\ DurationMismatch(s1, s2) THEN FALSE
       ELSE IF NameMismatch(s1, s2) THEN FALSE
       ELSE IF children1 = <<>> /\ children2 = <<>> THEN TRUE
       ELSE IF Abs(Len(children1) - Len(children2)) > 1 THEN FALSE
       ELSE IF AnyDbChild(children1, children2)
         THEN Abs(QueryCount(children1) - QueryCount(children2)) <= 1
       ELSE \A i \in 1..Min2(Len(children1), Len(children2)) :
                compare_subtrees_off_by_one(children1[i], children2[i], depth + 1)

\* Lines 157-267.  span1 and span2 are spanIDs of span_dict.
RECURSIVE compare_subtrees(_, _, _)
compare_subtrees(span1, span2, depth) ==
    LET s1 == span_dict[span1]
        s2 == span_dict[span2]
        children1 == SortedChildren(span1)
        children2 == SortedChildren(span2)
        depth1 == get_max_depth(hierarchy, span1, 0)
        depth2 == get_max_depth(hierarchy, span2, 0)
    IN IF ProcessMismatch(s1, s2) THEN FALSE
       ELSE IF RootDepthMismatch(depth, depth1, depth2) THEN FALSE
       ELSE IF SpanCountMismatch(count_total_spans(hierarchy, span1),
                                 count_total_spans(hierarchy, span2)) THEN FALSE
       ELSE IF depth = 0 /\ StartTooFar(s1, s2) THEN FALSE
       ELSE IF depth = 0 /\ GapTooWide(s1, s2) THEN FALSE
       ELSE IF depth = 0 /\ OverlapTooSmall(s1, s2) THEN FALSE
       ELSE IF depth = 0 /\ DurationMismatch(s1, s2) THEN FALSE
       ELSE IF NameMismatch(s1, s2) THEN FALSE
       ELSE IF children1 = <<>> /\ children2 = <<>> THEN TRUE
       ELSE IF Len(children1) # Len(children2) THEN FALSE
       ELSE IF AnyDbChild(children1, children2)
         THEN ~QueryCountMismatch(QueryCount(children1), QueryCount(children2))
       ELSE \A i \in 1..Len(children1) :
                compare_subtrees(children1[i], children2[i], depth + 1)

\* Lines 163-260: the call compare_subtrees(span1, span2, depth) gets as far
\* as the loop over the zipped children (line 261).
Descends(span1, span2, depth) ==
    LET s1 == span_dict[span1]
        s2 == span_dict[span2]
        children1 == SortedChildren(span1)
        children2 == SortedChildren(span2)
    IN /\ ~ProcessMismatch(s1, s2)
       /\ ~RootDepthMismatch(depth, get_max_depth(hierarchy, span1, 0),
                             get_max_depth(hierarchy, span2, 0))
       /\ ~SpanCountMismatch(count_total_spans(hierarchy, span1),
                             count_total_spans(hierarchy, span2))
       /\ depth = 0 => /\ ~StartTooFar(s1, s2)
                       /\ ~GapTooWide(s1, s2)
                       /\ ~OverlapTooSmall(s1, s2)
                       /\ ~DurationMismatch(s1, s2)
       /\ ~NameMismatch(s1, s2)
       /\ ~(children1 = <<>> /\ children2 = <<>>)
       /\ Len(children1) = Len(children2)
       /\ ~AnyDbChild(children1, children2)

\* Lines 261-264: the calls made by compare_subtrees(span1, span2, depth),
\* itself included, as <<span1, span2, depth>>; the loop stops at the first
\* pair of children that does not match.
RECURSIVE ComparedPairs(_, _, _)
ComparedPairs(span1, span2, depth) ==
    LET children1 == SortedChildren(span1)
        children2 == SortedChildren(span2)
    IN {<<span1, span2, depth>>}
       \cup (IF Descends(span1, span2, depth)
               THEN UNION {ComparedPairs(children1[i], children2[i], depth + 1) :
                             i \in {i \in 1..Len(children1) :
                                      \A j \in 1..(i - 1) :
                                         compare_subtrees(children1[j],
                                                          children2[j], depth + 1)}}
               ELSE {})

-----------------------------------------------------------------------------
(* The input family: a regular fan-out trace, edited                        *)
(*                                                                          *)
(* The base trace is one parent span with n sibling subtrees, each a chain  *)
(* of d spans below the sibling.  Init takes every trace that differs from  *)
(* a base trace by a bounded number of edits of one field of one span (or   *)
(* of one tolerance).                                                       *)

SpanId(i, l) == 10 * i + l
ParentSpanId == SpanId(0, 1)
ExtraId(i) == SpanId(i, 9)
DanglingId == SpanId(9, 9)

Ref(type, id) == [refType |-> type, spanID |-> id]

BaseName(l) == IF l = 0 THEN <<"GET", "/users">>
               ELSE IF l = 1 THEN <<"SELECT", "users">>
               ELSE <<"row">>

MkSpan(id, name, refs) ==
    [spanID |-> id, operationName |-> name, startTime |-> 0, duration |-> 50000,
     processID |-> "p1", tags |-> EmptyMap, references |-> refs]

BaseParent(i, l) == IF l = 0 THEN ParentSpanId ELSE SpanId(i, l - 1)

BaseSpans(n, d) ==
    <<MkSpan(ParentSpanId, <<"handle">>, <<>>)>>
    \o FlattenSeq([i \in 1..n |->
          [k \in 1..(d + 1) |->
              MkSpan(SpanId(i, k - 1), BaseName(k - 1),
                     <<Ref("CHILD_OF", BaseParent(i, k - 1))>>)]])

BaseTrace(n, d) ==
    [spans |-> BaseSpans(n, d),
     start_difference |-> DefaultStartDifference,
     gap_difference |-> DefaultGapDifference]

TagsHttp == [k \in {"http.request.method", "http.target"} |->
                IF k = "http.target" THEN "/users" ELSE "GET"]
TagsHttpDb == [k \in {"http.request.method", "http.target", "db.statement"} |->
                IF k = "http.target" THEN "/users"
                ELSE IF k = "db.statement" THEN StmtSelect ELSE "GET"]
TagsDbSelect == [k \in {"db.statement", "db.sql.table"} |->
                IF k = "db.statement" THEN StmtSelect ELSE "users"]
TagsDbCall == [k \in {"db.statement", "db.sql.table"} |->
                IF k = "db.statement" THEN StmtCall ELSE "users"]
TagsDbCallOrders == [k \in {"db.statement", "db.sql.table"} |->
                IF k = "db.statement" THEN StmtCall ELSE "orders"]

\* A tag mapping from a sequence of <<key, value>> pairs.
TagsOf(pairs) ==
    [k \in {pairs[j][1] : j \in 1..Len(pairs)} |->
        pairs[CHOOSE j \in 1..Len(pairs) : pairs[j][1] = k][2]]

\* Tag mappings that decide the label: the method under either key, the
\* path under the keys the code tries in turn, a raw URL with and without a
\* path, empty values, and statements of every leading keyword with and
\* without a table.
NormTagValues ==
    << TagsOf(<< <<"http.method", "GET">> >>),
       TagsOf(<< <<"http.request.method", "GET">>, <<"db.statement", StmtSelect>>,
                 <<"db.sql.table", "users">> >>),
       TagsOf(<< <<"http.request.method", "">>, <<"http.method", "GET">>,
                 <<"http.target", "">>, <<"http.route", "/orders">> >>),
       TagsOf(<< <<"http.method", "GET">>, <<"url.path", "/users">>,
                 <<"http.route", "/orders">> >>),
       TagsOf(<< <<"http.method", "GET">>, <<"url.full", "/orders">>,
                 <<"http.url", UrlUsers>> >>),
       TagsOf(<< <<"http.method", "GET">>, <<"http.url", UrlUsers>> >>),
       TagsOf(<< <<"http.method", "GET">>, <<"http.url", UrlBare>> >>),
       TagsOf(<< <<"http.request.method", "">> >>),
       TagsOf(<< <<"db.statement", StmtInsert>>, <<"db.sql.table", "orders">> >>),
       TagsOf(<< <<"db.statement", StmtUpdate>> >>),
       TagsOf(<< <<"db.statement", StmtDelete>>, <<"db.sql.table", "users">> >>),
       TagsOf(<< <<"db.statement", StmtCall>> >>),
       TagsOf(<< <<"http.target", "/orders">> >>) >>

StartValues == <<2000, 700000>>
DurationValues == <<40000, 60000, 51000>>
ProcessValues == <<"p2">>
NameValues == <<<<"SELECT", "users">>, <<"QUERY", "users">>>>
TagValues == <<TagsHttpDb, TagsDbSelect, TagsDbCall, TagsDbCallOrders, TagsHttp>>
DurationRuleValues ==
    <<10000, 15000, 19000, 19999, 20000, 62500, 62505, 160000, -90000>>
GapStartValues == <<200000, 300000, 40000, 45000>>
StartDifferenceValues == <<2000>>
GapDifferenceValues == <<700000, -10000>>

\* Alternative reference lists of span (i, l); every one keeps the resolved
\* parent relation acyclic: parents are higher in the own chain, the common
\* parent, or the root of a sibling with a larger index.
OtherParent(i, l, n) ==
    IF l = 0 THEN (IF i < n THEN SpanId(i + 1, 0) ELSE DanglingId)
    ELSE ParentSpanId

RefValues(i, l, n) ==
    LET own == Ref("CHILD_OF", BaseParent(i, l))
        other == Ref("CHILD_OF", OtherParent(i, l, n))
    IN << <<>>,
          <<Ref("CHILD_OF", DanglingId), own>>,
          <<Ref("FOLLOWS_FROM", OtherParent(i, l, n)), own>>,
          <<other, own>>,
          <<own, other>> >>

ExtraValues(i) ==
    << MkSpan(ExtraId(i), <<"SELECT", "users">>, <<Ref("CHILD_OF", SpanId(i, 0))>>),
       [MkSpan(ExtraId(i), <<"SELECT", "users">>, <<Ref("CHILD_OF", SpanId(i, 0))>>)
           EXCEPT !.tags = TagsDbSelect] >>

\* One more child of sibling i, labelled like its first child and starting
\* after it.
LateExtraValue(i) ==
    [MkSpan(ExtraId(i), <<"SELECT", "users">>, <<Ref("CHILD_OF", SpanId(i, 0))>>)
        EXCEPT !.startTime = StartValues[1]]

\* One more span below span (i, l) of a chain: a plain leaf or a database leaf.
DeepExtraValues(i, l) ==
    << MkSpan(ExtraId(i), <<"row">>, <<Ref("CHILD_OF", SpanId(i, l))>>),
       [MkSpan(ExtraId(i), <<"SELECT", "users">>, <<Ref("CHILD_OF", SpanId(i, l))>>)
           EXCEPT !.tags = TagsDbSelect] >>

\* The SELECT users spans (level 1 of every chain) carry their statement.
WithDbChildren(span) ==
    IF span.operationName = BaseName(1) /\ span.spanID % 10 = 1
         /\ span.spanID # ParentSpanId
      THEN [span EXCEPT !.tags = TagsDbSelect]
      ELSE span

Edit(f, i, l, k) == [f |-> f, i |-> i, l |-> l, k |-> k]

\* The edits of the base trace (n, d), by the field they change.
EditsOf(f, n, d) ==
    IF f = "start" THEN
        {Edit(f, i, 0, k) : i \in 1..n, k \in 1..Len(StartValues)}
    ELSE IF f = "duration" THEN
        {Edit(f, i, 0, k) : i \in 1..n, k \in 1..Len(DurationValues)}
    ELSE IF f = "process" THEN
        {Edit(f, i, l, k) : i \in 1..n, l \in 0..d, k \in 1..Len(ProcessValues)}
    ELSE IF f = "name" THEN
        {Edit(f, i, l, k) : i \in 1..n, l \in 0..d, k \in 1..Len(NameValues)}
    ELSE IF f = "tags" THEN
        {Edit(f, i, l, k) : i \in 1..n, l \in 0..d, k \in 1..Len(TagValues)}
    ELSE IF f = "refs" THEN
        {Edit(f, i, l, k) : i \in 1..n, l \in 0..d, k \in 1..5}
    ELSE IF f = "dbroot" THEN
        {Edit("tags", i, 0, 1) : i \in 1..n}
    ELSE IF f = "extra" THEN
        {Edit(f, i, 0, k) : i \in 1..n, k \in 1..2}
    ELSE IF f = "start_difference" THEN
        {Edit(f, 0, 0, k) : k \in 1..Len(StartDifferenceValues)}
    ELSE IF f = "gap_difference" THEN
        {Edit(f, 0, 0, k) : k \in 1..Len(GapDifferenceValues)}
    ELSE IF f = "order" THEN {Edit(f, 0, 0, 1)}
    ELSE IF f = "emptyid" THEN {Edit(f, 0, 0, 1)}
    ELSE IF f = "ruleduration" THEN
        {Edit(f, i, 0, k) : i \in 1..n, k \in 1..Len(DurationRuleValues)}
    ELSE IF f = "gapstart" THEN
        {Edit(f, i, 0, k) : i \in 1..n, k \in 1..Len(GapStartValues)}
    ELSE IF f = "childstart" THEN
        {Edit("start", i, 1, Len(StartValues)) : i \in 1..n}
    ELSE IF f = "deepextra" THEN
        {Edit(f, i, l, k) : i \in 1..n, l \in 0..d, k \in 1..2}
    ELSE IF f = "dbchildren" THEN {Edit(f, 0, 0, 1)}
    ELSE IF f = "lateextra" THEN {Edit(f, i, 0, 1) : i \in 1..n}
    ELSE IF f = "normtags" THEN
        {Edit(f, i, l, k) : i \in 1..n, l \in 0..1, k \in 1..Len(NormTagValues)}
    ELSE {}

Reverse(s) == [k \in 1..Len(s) |-> s[Len(s) + 1 - k]]

EditSpan(span, e, n) ==
    IF span.spanID # SpanId(e.i, e.l) THEN span
    ELSE IF e.f = "start" THEN [span EXCEPT !.startTime = StartValues[e.k]]
    ELSE IF e.f = "gapstart" THEN [span EXCEPT !.startTime = GapStartValues[e.k]]
    ELSE IF e.f = "duration" THEN [span EXCEPT !.duration = DurationValues[e.k]]
    ELSE IF e.f = "ruleduration"
      THEN [span EXCEPT !.duration = DurationRuleValues[e.k]]
    ELSE IF e.f = "process" THEN [span EXCEPT !.processID = ProcessValues[e.k]]
    ELSE IF e.f = "name" THEN [span EXCEPT !.operationName = NameValues[e.k]]
    ELSE IF e.f = "tags" THEN [span EXCEPT !.tags = TagValues[e.k]]
    ELSE IF e.f = "normtags" THEN [span EXCEPT !.tags = NormTagValues[e.k]]
    ELSE IF e.f = "refs" THEN [span EXCEPT !.references = RefValues(e.i, e.l, n)[e.k]]
    ELSE span

\* The common parent carries the empty spanID: its identity and every
\* reference to it are the empty string.
WithEmptyId(span) ==
    LET refs == span.references
    IN [span EXCEPT
          !.spanID = IF span.spanID = ParentSpanId THEN EmptyID ELSE span.spanID,
          !.references =
              [r \in 1..Len(refs) |->
                  IF refs[r].spanID = ParentSpanId
                    THEN Ref(refs[r].refType, EmptyID) ELSE refs[r]]]

ApplyEdit(t, e, n) ==
    IF e.f = "start_difference"
      THEN [t EXCEPT !.start_difference = StartDifferenceValues[e.k]]
    ELSE IF e.f = "gap_difference"
      THEN [t EXCEPT !.gap_difference = GapDifferenceValues[e.k]]
    ELSE IF e.f = "order" THEN [t EXCEPT !.spans = Reverse(t.spans)]
    ELSE IF e.f = "deepextra"
      THEN IF \E j \in 1..Len(t.spans) : t.spans[j].spanID = ExtraId(e.i)
             THEN t
             ELSE [t EXCEPT !.spans = Append(t.spans, DeepExtraValues(e.i, e.l)[e.k])]
    ELSE IF e.f = "dbchildren"
      THEN [t EXCEPT !.spans = [j \in 1..Len(t.spans) |-> WithDbChildren(t.spans[j])]]
    ELSE IF e.f = "emptyid"
      THEN [t EXCEPT !.spans = [j \in 1..Len(t.spans) |-> WithEmptyId(t.spans[j])]]
    ELSE IF e.f = "lateextra"
      THEN IF \E j \in 1..Len(t.spans) : t.spans[j].spanID = ExtraId(e.i)
             THEN t
             ELSE [t EXCEPT !.spans = Append(t.spans, LateExtraValue(e.i))]
    ELSE IF e.f = "extra"
      THEN IF \E j \in 1..Len(t.spans) : t.spans[j].spanID = ExtraId(e.i)
             THEN t
             ELSE [t EXCEPT !.spans = Append(t.spans, ExtraValues(e.i)[e.k])]
    ELSE [t EXCEPT !.spans = [j \in 1..Len(t.spans) |-> EditSpan(t.spans[j], e, n)]]

\* The traces at most k edits (of the given fields) away from base (n, d).
RECURSIVE EditedTraces(_, _, _, _)
EditedTraces(n, d, fields, k) ==
    IF k = 0 THEN {BaseTrace(n, d)}
    ELSE LET prev == EditedTraces(n, d, fields, k - 1)
             edits == UNION {EditsOf(f, n, d) : f \in fields}
         IN prev \cup {ApplyEdit(t, e, n) : t \in prev, e \in edits}

InputTraces(ns, ds, fields, k) ==
    UNION {EditedTraces(n, d, fields, k) : n \in ns, d \in ds}

-----------------------------------------------------------------------------
(* find_duplicate_spans and cluster_parallel_subtrees                       *)

InitFrom(traces) ==
    /\ \E t \in traces :
          /\ spans = t.spans
          /\ start_difference = t.start_difference
          /\ gap_difference = t.gap_difference
    /\ pc = "parsed"
    /\ span_dict = EmptyMap
    /\ dict_keys = <<>>
    /\ hierarchy = EmptyMap
    /\ roots = <<>>
    /\ depth_map = EmptyMap
    /\ parent_groups = EmptyMap
    /\ group_keys = <<>>
    /\ group_idx = 1
    /\ sorted_spans = <<>>
    /\ remaining = <<>>
    /\ root = NoSpan
    /\ cluster = <<>>
    /\ scan_i = 0
    /\ clusters = <<>>
    /\ popped = <<>>
    /\ duplicate_groups = EmptyMap

clusterVars == <<sorted_spans, remaining, root, cluster, scan_i, clusters, popped>>
inputVars == <<start_difference, gap_difference>>
builtVars == <<span_dict, dict_keys, hierarchy, roots>>
groupVars == <<depth_map, parent_groups, group_keys>>

\* Line 445: span_dict, hierarchy, roots = build_span_hierarchy(spans)
Build ==
    /\ pc = "parsed"
    /\ LET normalized == NormalizeAll(spans)
           dict == DictOf(normalized)
           keys == DictKeys(normalized)
       IN /\ spans' = normalized
          /\ span_dict' = dict
          /\ dict_keys' = keys
          /\ hierarchy' = BuildHierarchy(dict, keys)
          /\ roots' = BuildRoots(dict, keys)
    /\ pc' = "built"
    /\ UNCHANGED <<inputVars, groupVars, group_idx, clusterVars, duplicate_groups>>

\* Variant: the loop over the references has no break, the last match wins.
RECURSIVE GroupParentIdLast(_, _)
GroupParentIdLast(refs, known) ==
    IF refs = <<>> THEN NoSpan
    ELSE LET last == refs[Len(refs)]
         IN IF last.refType = "CHILD_OF" /\ last.spanID \in known
              THEN last.spanID
              ELSE GroupParentIdLast(SubSeq(refs, 1, Len(refs) - 1), known)

\* Lines 455-459: the parent a span is grouped under (None is NoSpan).
RECURSIVE GroupParentId(_, _)
GroupParentId(refs, known) ==
    IF refs = <<>> THEN NoSpan
    ELSE IF Head(refs).refType = "CHILD_OF" /\ Head(refs).spanID \in known
         THEN Head(refs).spanID
         ELSE GroupParentId(Tail(refs), known)

\* Lines 449-461: a span is grouped when its depth is at least 1 and its
\* parent_id is true.
Grouped(id, depths) ==
    /\ ~(depths[id] < 1)
    /\ ~NotParentId(GroupParentId(span_dict[id].references, DOMAIN span_dict))

\* Lines 446-462.
Group ==
    /\ pc = "built"
    /\ LET depths == [id \in DOMAIN span_dict |->
                         get_hierarchy_depth(hierarchy, id)]
           parentOf(id) == GroupParentId(span_dict[id].references, DOMAIN span_dict)
           members == SelectSeq(dict_keys, LAMBDA id : Grouped(id, depths))
           parents == [k \in 1..Len(members) |-> parentOf(members[k])]
       IN /\ depth_map' = depths
          /\ parent_groups' =
                [q \in Range(parents) |->
                    SelectSeq(members, LAMBDA id : parentOf(id) = q)]
          /\ group_keys' = FirstOccurrences(parents)
    /\ group_idx' = 1
    /\ pc' = "groups"
    /\ UNCHANGED <<spans, inputVars, builtVars, clusterVars, duplicate_groups>>

\* Variant: the siblings are left in the order of the caller's list.
SortByStartNot(ids) == ids

\* sorted(spans, key=startTime), line 271.
SortByStart(ids) == StableSortBy(ids, LAMBDA id : span_dict[id].startTime)

CurrentParent == group_keys[group_idx]

\* Lines 465-475, a group of one span: no clustering.
SkipGroup ==
    /\ pc = "groups"
    /\ group_idx <= Len(group_keys)
    /\ ~(Len(parent_groups[CurrentParent]) > 1)
    /\ group_idx' = group_idx + 1
    /\ UNCHANGED <<spans, inputVars, builtVars, groupVars, pc, clusterVars,
                   duplicate_groups>>

\* Variant: the caller's list is sorted in place (list.sort), as in the
\* older cluster_duplicates.
BeginClusterSortsInPlace ==
    /\ pc = "groups"
    /\ group_idx <= Len(group_keys)
    /\ Len(parent_groups[CurrentParent]) > 1
    /\ sorted_spans' = SortByStart(parent_groups[CurrentParent])
    /\ parent_groups' = [parent_groups EXCEPT ![CurrentParent] = sorted_spans']
    /\ remaining' = sorted_spans'
    /\ clusters' = <<>>
    /\ popped' = <<>>
    /\ root' = NoSpan
    /\ cluster' = <<>>
    /\ scan_i' = 0
    /\ pc' = "cluster_loop"
    /\ UNCHANGED <<spans, inputVars, builtVars, depth_map, group_keys, group_idx,
                   duplicate_groups>>

\* Lines 467-469 and 271-274: cluster_parallel_subtrees is entered.
BeginCluster ==
    /\ pc = "groups"
    /\ group_idx <= Len(group_keys)
    /\ Len(parent_groups[CurrentParent]) > 1
    /\ sorted_spans' = SortByStart(parent_groups[CurrentParent])
    /\ remaining' = sorted_spans'
    /\ clusters' = <<>>
    /\ popped' = <<>>
    /\ root' = NoSpan
    /\ cluster' = <<>>
    /\ scan_i' = 0
    /\ pc' = "cluster_loop"
    /\ UNCHANGED <<spans, inputVars, builtVars, groupVars, group_idx,
                   duplicate_groups>>

\* Variant: no root is skipped.
SkipsRootNever(span) == FALSE

\* Line 278.
SkipsRoot(span) == is_db_span(span)

\* Lines 275-280: root = remaining.pop(0); a database root is dropped.
SkipDbRoot ==
    /\ pc = "cluster_loop"
    /\ remaining # <<>>
    /\ SkipsRoot(span_dict[Head(remaining)])
    /\ root' = Head(remaining)
    /\ remaining' = Tail(remaining)
    /\ popped' = Append(popped, Head(remaining))
    /\ UNCHANGED <<spans, inputVars, builtVars, groupVars, group_idx, pc,
                   sorted_spans, cluster, scan_i, clusters, duplicate_groups>>

Member(id) == [span |-> id, count |-> count_total_spans(hierarchy, id)]

\* Variant: the root is read from the pool and not removed from it.
TakeRootKeepsPool ==
    /\ pc = "cluster_loop"
    /\ remaining # <<>>
    /\ ~SkipsRoot(span_dict[Head(remaining)])
    /\ root' = Head(remaining)
    /\ remaining' = remaining
    /\ popped' = Append(popped, Head(remaining))
    /\ cluster' = <<Member(Head(remaining))>>
    /\ scan_i' = 0
    /\ pc' = "scan"
    /\ UNCHANGED <<spans, inputVars, builtVars, groupVars, group_idx,
                   sorted_spans, clusters, duplicate_groups>>

\* Lines 275-282: root = remaining.pop(0); cluster = [(root, count)]; i = 0.
TakeRoot ==
    /\ pc = "cluster_loop"
    /\ remaining # <<>>
    /\ ~SkipsRoot(span_dict[Head(remaining)])
    /\ root' = Head(remaining)
    /\ remaining' = Tail(remaining)
    /\ popped' = Append(popped, Head(remaining))
    /\ cluster' = <<Member(Head(remaining))>>
    /\ scan_i' = 0
    /\ pc' = "scan"
    /\ UNCHANGED <<spans, inputVars, builtVars, groupVars, group_idx,
                   sorted_spans, clusters, duplicate_groups>>

\* Variant: the matched candidate stays in the pool.
RemoveAtKeeps(seq, k) == seq

\* remaining.pop(i), line 287.
RemoveAt(seq, k) == SubSeq(seq, 1, k - 1) \o SubSeq(seq, k + 1, Len(seq))

\* Variant: the comparison is entered as a nested one.
MatchesNested(root_id, candidate) == compare_subtrees(root_id, candidate, 1)

\* Line 286.
Matches(root_id, candidate) == compare_subtrees(root_id, candidate, 0)

\* Variant: the scan index also advances after a match.
ScanCandidateSkipsNext ==
    /\ pc = "scan"
    /\ scan_i < Len(remaining)
    /\ LET candidate == remaining[scan_i + 1]
       IN IF Matches(root, candidate)
            THEN /\ cluster' = Append(cluster, Member(candidate))
                 /\ remaining' = RemoveAt(remaining, scan_i + 1)
                 /\ scan_i' = scan_i + 1
            ELSE /\ scan_i' = scan_i + 1
                 /\ UNCHANGED <<cluster, remaining>>
    /\ UNCHANGED <<spans, inputVars, builtVars, groupVars, group_idx, pc,
                   sorted_spans, root, clusters, popped, duplicate_groups>>

\* Lines 283-291: one step of the scan over the pool.
ScanCandidate ==
    /\ pc = "scan"
    /\ scan_i < Len(remaining)
    /\ LET candidate == remaining[scan_i + 1]
       IN IF Matches(root, candidate)
            THEN /\ cluster' = Append(cluster, Member(candidate))
                 /\ remaining' = RemoveAt(remaining, scan_i + 1)
                 /\ scan_i' = scan_i
            ELSE /\ scan_i' = scan_i + 1
                 /\ UNCHANGED <<cluster, remaining>>
    /\ UNCHANGED <<spans, inputVars, builtVars, groupVars, group_idx, pc,
                   sorted_spans, root, clusters, popped, duplicate_groups>>

\* Variant: a cluster of one is kept.
KeepsClusterOfOne(c) == Len(c) >= 1

\* Line 293.
KeepsCluster(c) == Len(c) >= 2

\* Lines 292-297: the scan is over; the cluster is kept or dropped.
FinishRoot ==
    /\ pc = "scan"
    /\ ~(scan_i < Len(remaining))
    /\ clusters' = IF KeepsCluster(cluster) THEN Append(clusters, cluster)
                   ELSE clusters
    /\ pc' = "cluster_loop"
    /\ UNCHANGED <<spans, inputVars, builtVars, groupVars, group_idx,
                   sorted_spans, remaining, root, cluster, scan_i, popped,
                   duplicate_groups>>

\* Lines 299-300 and 470-473: the clusters are returned and recorded.
ReturnClusters ==
    /\ pc = "cluster_loop"
    /\ remaining = <<>>
    /\ duplicate_groups' =
          IF clusters # <<>>
            THEN [q \in DOMAIN duplicate_groups \cup {CurrentParent} |->
                     IF q = CurrentParent THEN clusters ELSE duplicate_groups[q]]
            ELSE duplicate_groups
    /\ group_idx' = group_idx + 1
    /\ pc' = "groups"
    /\ UNCHANGED <<spans, inputVars, builtVars, groupVars, clusterVars>>

\* Line 479: every group has been processed.
Finish ==
    /\ pc = "groups"
    /\ group_idx > Len(group_keys)
    /\ pc' = "done"
    /\ UNCHANGED <<spans, inputVars, builtVars, groupVars, group_idx,
                   clusterVars, duplicate_groups>>

Next ==
    \/ Build
    \/ Group
    \/ SkipGroup
    \/ BeginCluster
    \/ SkipDbRoot
    \/ TakeRoot
    \/ ScanCandidate
    \/ FinishRoot
    \/ ReturnClusters
    \/ Finish

\* Structure: labels, tags, processes, an extra child, the file order; two
\* edits of chains of full depth.
StructFields == {"process", "name", "tags", "extra", "order"}
Init == InitFrom(InputTraces(2..MaxSiblings, {MaxDepth}, StructFields, 2))
Spec == Init /\ [][Next]_vars

\* Timing: start times, durations and the two tolerances of the siblings;
\* three edits of chains of every depth.
TimingFields == {"start", "duration", "start_difference", "gap_difference",
                 "dbroot"}
InitTiming == InitFrom(InputTraces(2..MaxSiblings, 1..MaxDepth, TimingFields, 3))
SpecTiming == InitTiming /\ [][Next]_vars

\* References: reference lists, the file order and the empty identity; two
\* edits.
RefFields == {"refs", "order", "dbroot", "emptyid"}
InitRefs == InitFrom(InputTraces(2..MaxSiblings, 1..MaxDepth, RefFields, 2))
SpecRefs == InitRefs /\ [][Next]_vars

\* Two clusters in one group: one sibling more, edits of the process, the
\* start time and the tags of the siblings; two edits.
MergeFields == {"process", "start", "dbroot"}
InitMerge == InitFrom(InputTraces({MaxSiblings + 1}, {MaxDepth}, MergeFields, 2))
SpecMerge == InitMerge /\ [][Next]_vars

\* Start times: of the siblings and of their children, and the start
\* tolerance; three edits of chains of full depth.
StartFields == {"start", "childstart", "start_difference", "dbroot"}
InitStart == InitFrom(InputTraces(2..MaxSiblings, {MaxDepth}, StartFields, 3))
SpecStart == InitStart /\ [][Next]_vars

\* Gaps and overlaps: start times of the siblings within the start tolerance,
\* and the gap tolerance; two edits of chains of full depth.
GapFields == {"gapstart", "gap_difference", "dbroot"}
InitGap == InitFrom(InputTraces(2..MaxSiblings, {MaxDepth}, GapFields, 2))
SpecGap == InitGap /\ [][Next]_vars

\* Durations: of the siblings, short, long and about the thresholds; two
\* edits of chains of full depth.
DurationFields == {"ruleduration", "dbroot"}
InitDuration ==
    InitFrom(InputTraces(2..MaxSiblings, {MaxDepth}, DurationFields, 2))
SpecDuration == InitDuration /\ [][Next]_vars

\* Shape: one more span anywhere in a chain, database statements on the
\* SELECT users spans; three edits of chains of full depth, one sibling
\* fewer.
ShapeFields == {"deepextra", "dbchildren", "dbroot"}
InitShape ==
    InitFrom(InputTraces({MaxSiblings - 1}, {MaxDepth}, ShapeFields, 3))
SpecShape == InitShape /\ [][Next]_vars

\* Labels: operation names and tag sets of the spans at every level of two
\* sibling chains; two edits.
LabelFields == {"name", "tags"}
InitLabels ==
    InitFrom(InputTraces({MaxSiblings - 1}, {MaxDepth}, LabelFields, 2))
SpecLabels == InitLabels /\ [][Next]_vars

\* Normalization: the tag mappings that decide the label, on the siblings
\* and their children; two edits.
NormalizeFields == {"normtags"}
InitNormalize ==
    InitFrom(InputTraces({MaxSiblings - 1}, {MaxDepth}, NormalizeFields, 2))
SpecNormalize == InitNormalize /\ [][Next]_vars

\* Order of the children: a second child with the label of the first under
\* a sibling, starting with it or after it, and the start time of the first
\* child; three edits of two sibling chains.
OrderFields == {"extra", "lateextra", "childstart", "dbroot"}
InitOrder ==
    InitFrom(InputTraces({MaxSiblings - 1}, {MaxDepth}, OrderFields, 3))
SpecOrder == InitOrder /\ [][Next]_vars

\* Run to completion: reference lists (every one acyclic), processes and
\* database roots; two edits.
RunFields == {"refs", "process", "dbroot"}
InitRun == InitFrom(InputTraces({MaxSiblings}, {MaxDepth}, RunFields, 2))
SpecRun == InitRun /\ [][Next]_vars

-----------------------------------------------------------------------------
(* Properties                                                               *)

Built == pc # "parsed"
SpanIds == DOMAIN span_dict

\* Every cluster returned for a parent, and every cluster formed or returned.
ReturnedClusters ==
    UNION {{[parent |-> q, members |-> duplicate_groups[q][k]] :
               k \in 1..Len(duplicate_groups[q])} : q \in DOMAIN duplicate_groups}

FormedClusters ==
    ReturnedClusters
    \cup (IF pc \in {"cluster_loop", "scan"}
            THEN {[parent |-> CurrentParent, members |-> clusters[k]] :
                     k \in 1..Len(clusters)}
            ELSE {})

MemberIds(c) == {c.members[m].span : m \in 1..Len(c.members)}
RootOf(c) == c.members[1].span

\* The positions of the references of a span that are CHILD_OF a known span.
Resolvable(id) ==
    LET refs == span_dict[id].references
    IN {i \in 1..Len(refs) :
           refs[i].refType = "CHILD_OF" /\ refs[i].spanID \in SpanIds}

\* C1: every cluster formed or returned has at least 2 members, and every
\* member after the first is equivalent to the first (the candidate root)
\* at top level.
C1_ClusterSizeAndRootMatch ==
    \A c \in FormedClusters :
        /\ Len(c.members) >= 2
        /\ \A m \in 2..Len(c.members) :
              compare_subtrees(RootOf(c), c.members[m].span, 0)

\* A cluster was returned in a run in which another candidate root, not a
\* database span, found no match and was dropped.
C1_Witness ==
    /\ pc = "done"
    /\ \E c \in ReturnedClusters :
          \E x \in Range(parent_groups[c.parent]) :
              /\ ~is_db_span(span_dict[x])
              /\ \A c2 \in ReturnedClusters : x \notin MemberIds(c2)

\* C2: compare_subtrees is symmetric, at top level and nested.
C2_CompareSymmetric ==
    Built => \A a \in SpanIds, b \in SpanIds, d \in {0, 1} :
                compare_subtrees(a, b, d) = compare_subtrees(b, a, d)

\* C4 (as claimed): any two members of a cluster are equivalent at top level.
C4_MutuallyEquivalent ==
    \A c \in ReturnedClusters :
        \A m1 \in MemberIds(c), m2 \in MemberIds(c) :
            compare_subtrees(m1, m2, 0)

\* C4 (amended): every member after the first is equivalent to the first,
\* root first; any two members have the same processID, the same subtree
\* size and the same maximum depth, which is at least 2.
C4_RootEquivalentMembersAlike ==
    \A c \in ReturnedClusters :
        /\ \A m \in MemberIds(c) \ {RootOf(c)} :
              compare_subtrees(RootOf(c), m, 0)
        /\ \A m1 \in MemberIds(c), m2 \in MemberIds(c) :
              /\ span_dict[m1].processID = span_dict[m2].processID
              /\ count_total_spans(hierarchy, m1) = count_total_spans(hierarchy, m2)
              /\ get_max_depth(hierarchy, m1, 0) = get_max_depth(hierarchy, m2, 0)
              /\ get_max_depth(hierarchy, m1, 0) >= 2

\* A cluster of three whose two later members are not equivalent to each
\* other although their durations are each within tolerance of the root's.
C4_Witness ==
    /\ pc = "done"
    /\ \E c \in ReturnedClusters :
          /\ Len(c.members) = 3
          /\ DurationMismatch(span_dict[c.members[2].span],
                              span_dict[c.members[3].span])

\* C5: every member of a cluster is a child, in the built hierarchy, of the
\* parent the cluster is reported under, and that parent is the target of the
\* member's first resolvable CHILD_OF reference.
C5_MembersAreSiblings ==
    \A c \in FormedClusters :
        \A m \in MemberIds(c) :
            /\ m \in Range(Kids(hierarchy, c.parent))
            /\ \E i \in Resolvable(m) :
                  /\ span_dict[m].references[i].spanID = c.parent
                  /\ \A j \in Resolvable(m) : i <= j

\* A cluster one of whose members names a second known span in a later
\* CHILD_OF reference.
C5_Witness ==
    /\ pc = "done"
    /\ \E c \in ReturnedClusters :
          \E m \in MemberIds(c) :
              \E i \in Resolvable(m) :
                  span_dict[m].references[i].spanID # c.parent

\* C6: the first member of a cluster is never a database span.
C6_NoDatabaseRoot ==
    \A c \in FormedClusters : ~is_db_span(span_dict[RootOf(c)])

\* A database span was taken from the pool before a sibling it would have
\* matched, and the run is over.
C6_Witness ==
    /\ pc = "done"
    /\ \E q \in DOMAIN parent_groups :
          LET g == SortByStart(parent_groups[q])
          IN \E i \in 1..Len(g), j \in 1..Len(g) :
                /\ i < j
                /\ is_db_span(span_dict[g[i]])
                /\ compare_subtrees(g[i], g[j], 0)
                /\ \A c \in ReturnedClusters : g[i] \notin MemberIds(c)

\* The group of the common parent is exactly two GET /users spans of one
\* process, start times `apart` microseconds apart, each with exactly one
\* child, labelled SELECT users, whose own chain is `below` spans deep.
PairOf(x, y) ==
    /\ ParentSpanId \in DOMAIN hierarchy
    /\ hierarchy[ParentSpanId] = <<x, y>>
    /\ span_dict[x].operationName = <<"GET", "/users">>
    /\ span_dict[y].operationName = <<"GET", "/users">>
    /\ span_dict[x].processID = span_dict[y].processID
    /\ \A z \in {x, y} :
          /\ Len(Kids(hierarchy, z)) = 1
          /\ span_dict[Kids(hierarchy, z)[1]].operationName = <<"SELECT", "users">>
          /\ span_dict[Kids(hierarchy, z)[1]].processID = span_dict[z].processID

BoundaryPair(x, y, below) ==
    /\ PairOf(x, y)
    /\ start_difference = DefaultStartDifference
    /\ gap_difference = DefaultGapDifference
    /\ Abs(span_dict[x].startTime - span_dict[y].startTime) = 2000
    /\ {span_dict[x].duration, span_dict[y].duration} = {50000, 51000}
    /\ \A z \in {x, y} :
          /\ get_max_depth(hierarchy, z, 0) = 1 + below
          /\ count_total_spans(hierarchy, z) = 2 + below
          /\ \A w \in SpanIds \ {x, y} : span_dict[w].tags = EmptyMap

ClustersOfParent ==
    IF ParentSpanId \in DOMAIN duplicate_groups
      THEN duplicate_groups[ParentSpanId] ELSE <<>>

MatchesButForStart(x, y) ==
    /\ ~RootDepthMismatch(0, get_max_depth(hierarchy, x, 0),
                          get_max_depth(hierarchy, y, 0))
    /\ ~GapTooWide(span_dict[x], span_dict[y])
    /\ ~OverlapTooSmall(span_dict[x], span_dict[y])
    /\ ~DurationMismatch(span_dict[x], span_dict[y])
    /\ compare_subtrees(x, y, 1)

\* C8: with the default start tolerance, a group of two spans whose start
\* times are 700,000 microseconds apart yields no cluster.
C8_FarApartPairNoCluster ==
    pc = "done" =>
        \A q \in DOMAIN parent_groups :
            LET g == parent_groups[q]
            IN (/\ Len(g) = 2
                /\ start_difference = DefaultStartDifference
                /\ Abs(span_dict[g[1]].startTime - span_dict[g[2]].startTime)
                      = 700000)
               => q \notin DOMAIN duplicate_groups

\* Such a pair, matching in everything but the start times, was clustered
\* over and nothing came back.
C8_Witness ==
    /\ pc = "done"
    /\ start_difference = DefaultStartDifference
    /\ \E q \in DOMAIN parent_groups :
          LET g == parent_groups[q]
          IN /\ Len(g) = 2
             /\ Abs(span_dict[g[1]].startTime - span_dict[g[2]].startTime) = 700000
             /\ MatchesButForStart(g[1], g[2])
             /\ q \notin DOMAIN duplicate_groups

\* b has the children of a and one more, a database leaf.
OneMoreDbLeafChild(a, b) ==
    /\ Len(Kids(hierarchy, b)) = Len(Kids(hierarchy, a)) + 1
    /\ count_total_spans(hierarchy, b) = count_total_spans(hierarchy, a) + 1
    /\ \E x \in Range(Kids(hierarchy, b)) :
          is_db_span(span_dict[x]) /\ Kids(hierarchy, x) = <<>>

\* C9: two subtrees of which one has exactly one more database leaf child
\* are equivalent in neither order, at top level or nested, and never share
\* a cluster.
C9_ExtraDbLeafNeverEquivalent ==
    /\ pc = "done" =>
          \A a \in SpanIds, b \in SpanIds :
              OneMoreDbLeafChild(a, b) =>
                  \A d \in {0, 1} : /\ ~compare_subtrees(a, b, d)
                                    /\ ~compare_subtrees(b, a, d)
    /\ \A c \in FormedClusters :
          \A a \in MemberIds(c), b \in MemberIds(c) : ~OneMoreDbLeafChild(a, b)

\* Of three siblings the one with an extra database leaf child was left out
\* of the cluster the other two formed.
C9_Witness ==
    /\ pc = "done"
    /\ \E c \in ReturnedClusters :
          \E a \in MemberIds(c), b \in Range(parent_groups[c.parent]) :
              /\ OneMoreDbLeafChild(a, b)
              /\ b \notin MemberIds(c)
              /\ span_dict[a].operationName = span_dict[b].operationName

\* C10: a span with a resolvable CHILD_OF reference occurs exactly once in
\* the children of the target of the first such reference and in no other
\* children list; a span with none occurs in no children list.
C10_FirstChildOfWins ==
    Built =>
        \A id \in SpanIds :
            LET refs == span_dict[id].references
                res == Resolvable(id)
            IN /\ res = {} =>
                     \A q \in DOMAIN hierarchy : Occurrences(hierarchy[q], id) = 0
               /\ \A i \in res :
                     (\A j \in res : i <= j) =>
                        /\ Occurrences(Kids(hierarchy, refs[i].spanID), id) = 1
                        /\ \A q \in DOMAIN hierarchy \ {refs[i].spanID} :
                              Occurrences(hierarchy[q], id) = 0

\* A span with two CHILD_OF references to different known spans was linked.
C10_Witness ==
    /\ Built
    /\ \E id \in SpanIds :
          \E i \in Resolvable(id), j \in Resolvable(id) :
              /\ i < j
              /\ span_dict[id].references[i].spanID
                    # span_dict[id].references[j].spanID
              /\ id \in Range(Kids(hierarchy, span_dict[id].references[i].spanID))

\* C11: a span is in roots exactly when none of its CHILD_OF references names
\* a known span, and no root occurs in a children list.
C11_RootsIffUnresolved ==
    Built =>
        \A id \in SpanIds :
            /\ (id \in Range(roots)) <=> (Resolvable(id) = {})
            /\ id \in Range(roots) =>
                  \A q \in DOMAIN hierarchy : Occurrences(hierarchy[q], id) = 0

\* The ancestors of a span along the resolved parent references, nearest
\* first.
RECURSIVE Ancestors(_)
Ancestors(id) ==
    LET up == ParentIdOf(span_dict[id].references, SpanIds)
    IN IF up = NoSpan THEN <<>> ELSE <<up>> \o Ancestors(up)

\* C12: depth_map gives 0 at a span without children and otherwise 1 + the
\* largest depth of a child; count_total_spans gives 1 + the sum over the
\* children; get_max_depth gives the depth of depth_map; and the depth is
\* the length of the longest chain below the span, the size one more than
\* the number of spans below it.  (depth_map is written once, by the Group
\* step, and read here at the end of the run.)
C12_DepthAndSizeRecurrence ==
    pc = "done" =>
        LET chain == [x \in SpanIds |-> Ancestors(x)] IN
        \A id \in SpanIds :
            LET kids == Kids(hierarchy, id)
                below == UNION {{<<x, k>> : k \in {k \in 1..Len(chain[x]) :
                                                     chain[x][k] = id}} :
                                   x \in SpanIds}
            IN /\ depth_map[id] = get_hierarchy_depth(hierarchy, id)
               /\ kids = <<>> => depth_map[id] = 0
               /\ kids # <<>> =>
                     /\ \A i \in 1..Len(kids) : depth_map[id] >= 1 + depth_map[kids[i]]
                     /\ \E i \in 1..Len(kids) : depth_map[id] = 1 + depth_map[kids[i]]
               /\ count_total_spans(hierarchy, id) =
                     1 + SumSeq([i \in 1..Len(kids) |->
                                   count_total_spans(hierarchy, kids[i])])
               /\ get_max_depth(hierarchy, id, 0) = depth_map[id]
               /\ \A p \in below : p[2] <= depth_map[id]
               /\ depth_map[id] > 0 => \E p \in below : p[2] = depth_map[id]
               /\ count_total_spans(hierarchy, id) =
                     1 + Cardinality({p[1] : p \in below})

\* The depth map was computed for a span with two children of different
\* depths, the shallower one first.
C12_Witness ==
    /\ pc = "groups"
    /\ \E id \in SpanIds :
          LET kids == Kids(hierarchy, id)
          IN /\ Len(kids) = 2
             /\ depth_map[kids[1]] < depth_map[kids[2]]
             /\ depth_map[id] >= 3

\* C13: in the clusters returned for one parent, no two distinct clusters
\* hold spans, one from each, whose start times differ by at most the start
\* tolerance.
C13_CloseClustersMerged ==
    \A q \in DOMAIN duplicate_groups :
        LET cs == duplicate_groups[q]
        IN \A k1 \in 1..Len(cs), k2 \in 1..Len(cs) :
              k1 # k2 =>
                 \A m1 \in 1..Len(cs[k1]), m2 \in 1..Len(cs[k2]) :
                    Abs(span_dict[cs[k1][m1].span].startTime
                          - span_dict[cs[k2][m2].span].startTime) > start_difference

\* The calls made while the members of the returned clusters were matched
\* against their roots.
ClusterComparedPairs ==
    UNION {UNION {ComparedPairs(RootOf(c), c.members[m].span, 0) :
                     m \in 2..Len(c.members)} : c \in ReturnedClusters}

\* C14: compare_subtrees(a, b) is true, at top level or nested (a call at
\* any depth below the top is evaluated as one at depth 1), only if a and b
\* have the same processID; and so have the two spans of every call made in
\* matching a cluster member against its root.
C14_SameProcessThroughout ==
    pc = "done" =>
        /\ \A a \in SpanIds, b \in SpanIds, d \in {0, 1} :
              span_dict[a].processID # span_dict[b].processID
                  => ~compare_subtrees(a, b, d)
        /\ \A p \in ClusterComparedPairs :
              span_dict[p[1]].processID = span_dict[p[2]].processID

\* Two siblings of one process matched, and a third of the same process,
\* one of whose descendants belongs to another process, stayed out of their
\* cluster.
C14_Witness ==
    /\ pc = "done"
    /\ \E c \in ReturnedClusters :
          /\ Cardinality(ComparedPairs(RootOf(c), c.members[2].span, 0)) >= 3
          /\ \E x \in Range(parent_groups[c.parent]) \ MemberIds(c) :
                /\ span_dict[x].processID = span_dict[RootOf(c)].processID
                /\ \E y \in SpanIds :
                      /\ x \in Range(Ancestors(y))
                      /\ span_dict[y].processID # span_dict[x].processID
                /\ \A y \in SpanIds : span_dict[y].tags = EmptyMap

\* C15: when compare_subtrees(a, b) is true, at top level or nested, the
\* maximum depth under a equals the maximum depth under b, and at top level
\* that depth is at least 2.
C15_TrueOnlyIfSameDepth ==
    pc = "done" =>
        \A a \in SpanIds, b \in SpanIds, d \in {0, 1} :
            compare_subtrees(a, b, d) =>
                /\ get_max_depth(hierarchy, a, 0) = get_max_depth(hierarchy, b, 0)
                /\ d = 0 => get_max_depth(hierarchy, a, 0) >= 2

\* C16: compare_subtrees(a, b) is true, at top level or nested, only if the
\* subtrees of a and b hold the same number of spans; so do the subtrees of
\* the two spans of every call made in matching a cluster member against its
\* root, and the members of a cluster were recorded with one and the same
\* count.
C16_TrueOnlyIfSameSize ==
    /\ pc = "done" =>
          /\ \A a \in SpanIds, b \in SpanIds, d \in {0, 1} :
                count_total_spans(hierarchy, a) # count_total_spans(hierarchy, b)
                    => ~compare_subtrees(a, b, d)
          /\ \A p \in ClusterComparedPairs :
                count_total_spans(hierarchy, p[1])
                    = count_total_spans(hierarchy, p[2])
    /\ \A c \in FormedClusters :
          \A m \in 1..Len(c.members) : c.members[m].count = c.members[1].count

\* A candidate root was compared with a sibling that has as many children,
\* as many database children and the same maximum depth but one span more,
\* and no cluster came back.
C16_Witness ==
    /\ pc = "done"
    /\ duplicate_groups = EmptyMap
    /\ \E q \in DOMAIN parent_groups :
          \E r \in Range(parent_groups[q]), x \in Range(parent_groups[q]) :
              LET g == SortByStart(parent_groups[q])
              IN /\ Len(g) = 2 /\ g[1] = r /\ g[2] = x
                 /\ ~is_db_span(span_dict[r])
                 /\ ~is_db_span(span_dict[x])
                 /\ Len(Kids(hierarchy, x)) = Len(Kids(hierarchy, r))
                 /\ AnyDbChild(SortedChildren(r), SortedChildren(x))
                 /\ QueryCount(Kids(hierarchy, x)) = QueryCount(Kids(hierarchy, r))
                 /\ get_max_depth(hierarchy, x, 0) = get_max_depth(hierarchy, r, 0)
                 /\ count_total_spans(hierarchy, x)
                       = count_total_spans(hierarchy, r) + 1

\* C17: at top level compare_subtrees(a, b) is false whenever the start times
\* differ by more than start_difference; a pair that passes every other
\* check is true at top level when the difference is at most start_difference,
\* the difference equal to it included; a nested comparison is true whenever
\* the top-level one is, so the start times can only make the top-level
\* comparison fail.
C17_StartToleranceAtTopOnly ==
    pc = "done" =>
        \A a \in SpanIds, b \in SpanIds :
            LET diff == Abs(span_dict[a].startTime - span_dict[b].startTime)
            IN /\ diff > start_difference => ~compare_subtrees(a, b, 0)
               /\ (diff <= start_difference /\ MatchesButForStart(a, b))
                     => compare_subtrees(a, b, 0)
               /\ compare_subtrees(a, b, 0) => compare_subtrees(a, b, 1)

\* A cluster was returned whose two members start exactly start_difference
\* apart, while their children start further apart than that.
C17_Witness ==
    /\ pc = "done"
    /\ \E c \in ReturnedClusters :
          LET a == c.members[1].span
              b == c.members[2].span
          IN /\ Abs(span_dict[a].startTime - span_dict[b].startTime)
                   = start_difference
             /\ start_difference > 0
             /\ \E p \in ComparedPairs(a, b, 0) :
                   /\ p[3] >= 1
                   /\ Abs(span_dict[p[1]].startTime - span_dict[p[2]].startTime)
                         > start_difference

\* All checks of compare_subtrees other than the gap and overlap checks pass.
MatchesButForGap(x, y) ==
    /\ ~RootDepthMismatch(0, get_max_depth(hierarchy, x, 0),
                          get_max_depth(hierarchy, y, 0))
    /\ ~StartTooFar(span_dict[x], span_dict[y])
    /\ ~DurationMismatch(span_dict[x], span_dict[y])
    /\ compare_subtrees(x, y, 1)

\* C18: at top level, with gap_difference >= 0, compare_subtrees(a, b) is
\* false when the intervals [start, start + duration) are disjoint and the
\* gap between them exceeds gap_difference, and true, for a pair that passes
\* every other check, when they overlap or the gap is at most gap_difference;
\* with gap_difference < 0 it is false when min(end) - max(start) is below
\* -gap_difference and true, for a pair that passes every other check, when
\* it is at least -gap_difference.
C18_GapAndOverlapRule ==
    pc = "done" =>
        \A a \in SpanIds, b \in SpanIds :
            LET s1 == span_dict[a]
                s2 == span_dict[b]
                end1 == s1.startTime + s1.duration
                end2 == s2.startTime + s2.duration
                overlap == Min2(end1, end2) - Max2(s1.startTime, s2.startTime)
                disjoint == end1 <= s2.startTime \/ end2 <= s1.startTime
                gap == Max2(s1.startTime, s2.startTime) - Min2(end1, end2)
            IN /\ (gap_difference >= 0 /\ disjoint /\ gap > gap_difference)
                     => ~compare_subtrees(a, b, 0)
               /\ (/\ gap_difference >= 0
                   /\ ~disjoint \/ gap <= gap_difference
                   /\ MatchesButForGap(a, b)) => compare_subtrees(a, b, 0)
               /\ (gap_difference < 0 /\ overlap < -gap_difference)
                     => ~compare_subtrees(a, b, 0)
               /\ (/\ gap_difference < 0
                   /\ overlap >= -gap_difference
                   /\ MatchesButForGap(a, b)) => compare_subtrees(a, b, 0)

\* A cluster was returned whose two members are disjoint in time with a gap
\* of exactly gap_difference, the later one given as the first member or as
\* the second.
C18_Witness ==
    /\ pc = "done"
    /\ gap_difference > 0
    /\ \E c \in ReturnedClusters :
          LET s1 == span_dict[c.members[1].span]
              s2 == span_dict[c.members[2].span]
          IN s2.startTime - (s1.startTime + s1.duration) = gap_difference

\* All checks of compare_subtrees other than the duration checks pass.
MatchesButForDuration(x, y) ==
    /\ ~RootDepthMismatch(0, get_max_depth(hierarchy, x, 0),
                          get_max_depth(hierarchy, y, 0))
    /\ ~StartTooFar(span_dict[x], span_dict[y])
    /\ ~GapTooWide(span_dict[x], span_dict[y])
    /\ ~OverlapTooSmall(span_dict[x], span_dict[y])
    /\ compare_subtrees(x, y, 1)

\* C19: at top level compare_subtrees(a, b) is false when the durations
\* differ by more than 100,000, and, unless both are below 20,000, when five
\* times the difference exceeds the larger duration; a pair that passes every
\* other check is true when both durations are non-negative and below
\* 20,000, and when the difference is at most 100,000 and five times it at
\* most the larger duration.
C19_DurationRule ==
    pc = "done" =>
        \A a \in SpanIds, b \in SpanIds :
            LET d1 == span_dict[a].duration
                d2 == span_dict[b].duration
                diff == Abs(d1 - d2)
                larger == Max2(d1, d2)
                short == d1 < ShortDuration /\ d2 < ShortDuration
            IN /\ diff > MaxDurationDiff => ~compare_subtrees(a, b, 0)
               /\ (~short /\ 5 * diff > larger) => ~compare_subtrees(a, b, 0)
               /\ (short /\ d1 >= 0 /\ d2 >= 0 /\ MatchesButForDuration(a, b))
                     => compare_subtrees(a, b, 0)
               /\ (/\ diff <= MaxDurationDiff
                   /\ 5 * diff <= larger
                   /\ MatchesButForDuration(a, b)) => compare_subtrees(a, b, 0)

\* A cluster was returned whose two members are both short and differ by
\* more than 20% of the longer one.
C19_Witness ==
    /\ pc = "done"
    /\ \E c \in ReturnedClusters :
          LET d1 == span_dict[c.members[1].span].duration
              d2 == span_dict[c.members[2].span].duration
          IN /\ d1 < ShortDuration /\ d2 < ShortDuration
             /\ d1 >= 0 /\ d2 >= 0
             /\ 5 * Abs(d1 - d2) > Max2(d1, d2)

\* The labels are equal, or both spans are database spans and both labels
\* begin with QUERY.
SameLabelOrBothQuery(x, y) ==
    LET s1 == span_dict[x]
        s2 == span_dict[y]
    IN \/ s1.operationName = s2.operationName
       \/ /\ is_db_span(s1) /\ is_db_span(s2)
          /\ Head(s1.operationName) = "QUERY"
          /\ Head(s2.operationName) = "QUERY"

\* C20: compare_subtrees(a, b) is true, at top level or nested, only if the
\* labels of a and b are equal, or both are database spans and both labels
\* begin with QUERY; the same holds for the two spans of every call made in
\* matching a cluster member against its root; so a database span and a span
\* that is none, with different labels, are never equivalent.
C20_SameLabelOrBothQuery ==
    pc = "done" =>
        /\ \A a \in SpanIds, b \in SpanIds, d \in {0, 1} :
              ~SameLabelOrBothQuery(a, b) => ~compare_subtrees(a, b, d)
        /\ \A p \in ClusterComparedPairs : SameLabelOrBothQuery(p[1], p[2])

\* Two database spans labelled QUERY users and QUERY orders are equivalent
\* at top level.
C20_Witness ==
    /\ pc = "done"
    /\ \E a \in SpanIds, b \in SpanIds :
          /\ compare_subtrees(a, b, 0)
          /\ span_dict[a].operationName = <<"QUERY", "users">>
          /\ span_dict[b].operationName = <<"QUERY", "orders">>

\* The method of the label: the value under http.request.method unless it
\* is empty or absent, then the value under http.method.
MethodOf(tags) ==
    IF HasTag(tags, "http.request.method") /\ tags["http.request.method"] # ""
      THEN tags["http.request.method"]
      ELSE tags["http.method"]

\* No path attribute resolves: none of the four path keys has a non-empty
\* value and there is no raw URL.
NoPathResolves(tags) ==
    /\ \A k \in {"http.target", "url.path", "http.route", "url.full"} :
          ~HasTag(tags, k) \/ tags[k] = ""
    /\ ~HasTag(tags, "http.url")

\* The verb of a statement: its leading keyword when that is one of the
\* four, else QUERY.
VerbOf(stmt) ==
    LET kws == {kw \in {"SELECT", "INSERT", "UPDATE", "DELETE"} : StartsWith(stmt, kw)}
    IN IF kws = {} THEN "QUERY" ELSE CHOOSE kw \in kws : TRUE

ReachesChildren(span1, span2, depth) ==
    LET s1 == span_dict[span1]
        s2 == span_dict[span2]
    IN /\ ~ProcessMismatch(s1, s2)
       /\ ~RootDepthMismatch(depth, get_max_depth(hierarchy, span1, 0),
                             get_max_depth(hierarchy, span2, 0))
       /\ ~SpanCountMismatch(count_total_spans(hierarchy, span1),
                             count_total_spans(hierarchy, span2))
       /\ depth = 0 => /\ ~StartTooFar(s1, s2)
                       /\ ~GapTooWide(s1, s2)
                       /\ ~OverlapTooSmall(s1, s2)
                       /\ ~DurationMismatch(s1, s2)
       /\ ~NameMismatch(s1, s2)
       /\ Len(Kids(hierarchy, span1)) = Len(Kids(hierarchy, span2))
       /\ Len(Kids(hierarchy, span1)) > 0

HasDbChild(id) ==
    \E i \in 1..Len(Kids(hierarchy, id)) : is_db_span(span_dict[Kids(hierarchy, id)[i]])

\* C22: when a and b pass every earlier check, have the same non-zero number
\* of children, and a or b has a database child, compare_subtrees(a, b) is
\* true iff a and b have the same number of database children, whichever of
\* the two owns the database child.
C22_DbChildRelaxation ==
    pc = "done" =>
        \A a \in SpanIds, b \in SpanIds, d \in {0, 1} :
            (ReachesChildren(a, b, d) /\ (HasDbChild(a) \/ HasDbChild(b)))
                => (compare_subtrees(a, b, d)
                      <=> QueryCount(Kids(hierarchy, a)) = QueryCount(Kids(hierarchy, b)))

\* The children of a span ordered by label, ties broken by start time.
ChildrenByLabelThenStart(id) ==
    StableSortBy(Kids(hierarchy, id),
                 LAMBDA c : NameKey(span_dict[c].operationName) * 1000000
                              + span_dict[c].startTime)

\* No two children of the span have the same label and the same start time.
ChildOrderDetermined(id) ==
    LET kids == Kids(hierarchy, id)
    IN \A i \in 1..Len(kids), j \in 1..Len(kids) :
          (i # j) =>
              \/ span_dict[kids[i]].operationName # span_dict[kids[j]].operationName
              \/ span_dict[kids[i]].startTime # span_dict[kids[j]].startTime

\* C23: when a and b pass every earlier check, have the same non-zero number
\* of children and neither has a database child, compare_subtrees(a, b) is
\* true iff the children of a and of b, each ordered by label with ties
\* broken by start time, are equivalent position by position as nested
\* calls (whenever label and start time determine that order).
C23_ChildrenByLabelThenStart ==
    pc = "done" =>
        \A a \in SpanIds, b \in SpanIds, d \in {0, 1} :
            (/\ ReachesChildren(a, b, d)
             /\ ~HasDbChild(a) /\ ~HasDbChild(b)
             /\ ChildOrderDetermined(a) /\ ChildOrderDetermined(b))
                => (compare_subtrees(a, b, d)
                      <=> \A i \in 1..Len(Kids(hierarchy, a)) :
                             compare_subtrees(ChildrenByLabelThenStart(a)[i],
                                              ChildrenByLabelThenStart(b)[i], d + 1))

\* The clusters of the group being processed: those formed, and the one being
\* grown during a scan.
GroupClusters ==
    Range(clusters) \cup (IF pc = "scan" THEN {cluster} ELSE {})

\* Position of a span among the candidate roots taken in this group.
PoppedAt(id) == CHOOSE k \in 1..Len(popped) : popped[k] = id

\* C24: while a group is clustered, the siblings are in ascending startTime
\* and candidate roots are taken in that order; every span is in the pool,
\* was taken as root or is in a cluster; during the scan of a non-database
\* root r no span of the pool before the scan index is equivalent to r at
\* top level, and after the scan no span of the pool is; and no member of a
\* cluster is equivalent to a non-database root taken before the root of
\* its cluster.
C24_GreedyEarliestRoot ==
    pc \in {"cluster_loop", "scan"} =>
        /\ \A i \in 1..Len(sorted_spans), j \in 1..Len(sorted_spans) :
              i < j => span_dict[sorted_spans[i]].startTime
                         <= span_dict[sorted_spans[j]].startTime
        /\ \A i \in 1..Len(popped), j \in 1..Len(popped) :
              i < j => span_dict[popped[i]].startTime <= span_dict[popped[j]].startTime
        /\ Range(sorted_spans)
              = Range(remaining) \cup Range(popped)
                  \cup UNION {{c[m].span : m \in 1..Len(c)} : c \in GroupClusters}
        /\ pc = "scan" =>
              /\ ~is_db_span(span_dict[root])
              /\ \A k \in 1..scan_i : ~compare_subtrees(root, remaining[k], 0)
        /\ (pc = "cluster_loop" /\ root # NoSpan /\ ~is_db_span(span_dict[root])) =>
              \A k \in 1..Len(remaining) : ~compare_subtrees(root, remaining[k], 0)
        /\ \A c \in GroupClusters : \A m \in 2..Len(c) :
              \A k \in 1..(PoppedAt(c[1].span) - 1) :
                  ~is_db_span(span_dict[popped[k]])
                      => ~compare_subtrees(popped[k], c[m].span, 0)

\* The second cluster of a group has been formed: its root was taken after
\* the root of the first, and the pool is empty.
C24_Witness ==
    /\ pc = "cluster_loop"
    /\ Len(clusters) = 2
    /\ remaining = <<>>
    /\ Len(popped) >= 2
    /\ ~is_db_span(span_dict[popped[1]])
    /\ compare_subtrees(clusters[2][1].span, clusters[2][2].span, 0)

\* A bound on the number of steps cluster_parallel_subtrees still takes:
\* every pop and every match lowers the pool term, every step of a scan that
\* does not match lowers the scan term.
ClusterSteps ==
    LET g == Len(sorted_spans) + 2
        r == Len(remaining)
    IN IF pc = "scan" THEN r * g + (r - scan_i) + 2 ELSE r * g + 1

\* A bound on ClusterSteps for any group of the trace.
MaxClusterSteps == (Len(spans) + 3) * (Len(spans) + 3)

\* A bound on the number of steps the run still takes.
StepsLeft ==
    LET groupsLeft == Len(group_keys) + 1 - group_idx
        perGroup == MaxClusterSteps + 2
    IN IF pc = "parsed" THEN (Len(spans) + 2) * perGroup + 3
       ELSE IF pc = "built" THEN (Len(spans) + 2) * perGroup + 2
       ELSE IF pc = "groups" THEN groupsLeft * perGroup + 1
       ELSE IF pc \in {"cluster_loop", "scan"}
         THEN (groupsLeft - 1) * perGroup + 1 + ClusterSteps
       ELSE 0

\* C25: the run terminates (the resolved parent relation is acyclic in every
\* input): every step lowers a natural-number bound on the steps left; each
\* iteration of the outer loop of cluster_parallel_subtrees removes one span
\* from the pool, and each step of the inner loop removes a span from the
\* pool or advances the scan index; and the recursions of the depth, the
\* subtree size and compare_subtrees go from a span to its children, whose
\* depth is smaller.
C25_Terminates ==
    [][/\ Next => (StepsLeft' < StepsLeft /\ StepsLeft' >= 0)
       /\ (TakeRoot \/ SkipDbRoot) => Len(remaining') = Len(remaining) - 1
       /\ ScanCandidate =>
             \/ Len(remaining') = Len(remaining) - 1 /\ scan_i' = scan_i
             \/ remaining' = remaining /\ scan_i' = scan_i + 1
       /\ Group =>
             \A id \in SpanIds : \A k \in 1..Len(Kids(hierarchy, id)) :
                 /\ get_hierarchy_depth(hierarchy, Kids(hierarchy, id)[k])
                       < get_hierarchy_depth(hierarchy, id)
                 /\ count_total_spans(hierarchy, Kids(hierarchy, id)[k])
                       < count_total_spans(hierarchy, id)]_vars

\* A run has ended after a group of three or more siblings was clustered
\* with a cluster returned.
C25_Witness ==
    /\ pc = "done"
    /\ Len(sorted_spans) >= 3
    /\ duplicate_groups # EmptyMap
    /\ StepsLeft = 0

\* The steps of cluster_parallel_subtrees, each with the comparisons it makes.
ClusterStep ==
    \/ BeginCluster
    \/ SkipDbRoot
    \/ TakeRoot
    \/ ScanCandidate
    \/ FinishRoot
    \/ ReturnClusters

\* C26: no step of cluster_parallel_subtrees, with the calls of
\* compare_subtrees it makes, changes span_dict (the spans and their fields),
\* the span list, the hierarchy (its keys and the order of every children
\* list), the depth map or the caller's sibling lists.
C26_ClusteringReadOnly ==
    [][ClusterStep =>
          /\ span_dict' = span_dict
          /\ spans' = spans
          /\ dict_keys' = dict_keys
          /\ DOMAIN hierarchy' = DOMAIN hierarchy
          /\ \A q \in DOMAIN hierarchy : hierarchy'[q] = hierarchy[q]
          /\ roots' = roots
          /\ depth_map' = depth_map
          /\ parent_groups' = parent_groups
          /\ group_keys' = group_keys]_vars

\* A group was clustered whose siblings were not in ascending startTime in
\* the caller's list, and a cluster was returned for it.
C26_Witness ==
    /\ pc = "done"
    /\ \E q \in DOMAIN duplicate_groups :
          /\ sorted_spans = SortByStart(parent_groups[q])
          /\ sorted_spans # parent_groups[q]

\* Every cluster of the run so far, in the order of their creation: those
\* returned for the groups already processed, those formed in the group
\* being processed, and the one being grown.
AllClusters ==
    FlattenSeq([g \in 1..Len(group_keys) |->
                   IF group_keys[g] \in DOMAIN duplicate_groups
                     THEN duplicate_groups[group_keys[g]] ELSE <<>>])
    \o (IF pc \in {"cluster_loop", "scan"} THEN clusters ELSE <<>>)
    \o (IF pc = "scan" THEN <<cluster>> ELSE <<>>)

\* C27: at every point of the run no span occurs twice in one cluster or in
\* two clusters; within a group no span is taken as candidate root twice, a
\* span taken as candidate root is in a cluster only as its first member,
\* and a database span taken as candidate root is in no cluster.
C27_ClustersDisjoint ==
    /\ \A k1 \in 1..Len(AllClusters), k2 \in 1..Len(AllClusters) :
          \A m1 \in 1..Len(AllClusters[k1]), m2 \in 1..Len(AllClusters[k2]) :
              AllClusters[k1][m1].span = AllClusters[k2][m2].span
                  => (k1 = k2 /\ m1 = m2)
    /\ pc \in {"cluster_loop", "scan"} =>
          /\ \A i \in 1..Len(popped), j \in 1..Len(popped) :
                popped[i] = popped[j] => i = j
          /\ \A c \in GroupClusters : \A m \in 1..Len(c) :
                c[m].span \in Range(popped)
                    => (m = 1 /\ ~is_db_span(span_dict[c[m].span]))

\* A span was taken as candidate root and discarded, and a cluster was
\* formed after it in the same group.
C27_Witness ==
    /\ pc = "cluster_loop"
    /\ remaining = <<>>
    /\ Len(clusters) >= 1
    /\ \E k \in 1..Len(popped) :
          /\ \A c \in Range(clusters) : c[1].span # popped[k]
          /\ \E c \in Range(clusters) : PoppedAt(c[1].span) > k

\* C28: in every cluster of the run the first member is no database span,
\* and every member has the operationName and the processID of the first
\* member, so the label of cluster[0] is the label of every member.
C28_MembersShareLabelAndProcess ==
    \A k \in 1..Len(AllClusters) :
        LET c == AllClusters[k]
        IN /\ ~is_db_span(span_dict[c[1].span])
           /\ \A m \in 1..Len(c) :
                 /\ span_dict[c[m].span].operationName
                       = span_dict[c[1].span].operationName
                 /\ span_dict[c[m].span].processID = span_dict[c[1].span].processID

\* A cluster was returned whose second member is a database span, with the
\* label of the first.
C28_Witness ==
    /\ pc = "done"
    /\ \E c \in ReturnedClusters :
          /\ is_db_span(span_dict[c.members[2].span])
          /\ ~is_db_span(span_dict[RootOf(c)])
          /\ span_dict[c.members[2].span].operationName = <<"GET", "/users">>

\* C29: in every cluster of the run the members are in ascending startTime,
\* the first member starting first; every member starts within
\* start_difference of the first, and any two members start within
\* start_difference of each other.
C29_MembersAscendingWithinTolerance ==
    \A k \in 1..Len(AllClusters) :
        LET c == AllClusters[k]
            start(m) == span_dict[c[m].span].startTime
        IN /\ \A m \in 1..Len(c) :
                 /\ start(1) <= start(m)
                 /\ start(m) - start(1) <= start_difference
           /\ \A m1 \in 1..Len(c), m2 \in 1..Len(c) :
                 /\ m1 < m2 => start(m1) <= start(m2)
                 /\ Abs(start(m1) - start(m2)) <= start_difference

\* A cluster of three was returned whose first member is not the first
\* sibling of the caller's list and whose last member starts after the first.
C29_Witness ==
    /\ pc = "done"
    /\ \E c \in ReturnedClusters :
          /\ Len(c.members) = 3
          /\ RootOf(c) # parent_groups[c.parent][1]
          /\ span_dict[c.members[3].span].startTime > span_dict[RootOf(c)].startTime

-----------------------------------------------------------------------------
(* export_clustered_traces_json                                             *)

\* Variant: the subtree is the span and its children, no deeper.
get_subtree_spans_one_level(h, root_span) == <<root_span>> \o Kids(h, root_span)

\* Lines 607-613: the span and its descendants, each child's subtree in turn.
RECURSIVE get_subtree_spans(_, _)
get_subtree_spans(h, root_span) ==
    LET children == Kids(h, root_span)
    IN <<root_span>>
       \o FlattenSeq([i \in 1..Len(children) |-> get_subtree_spans(h, children[i])])

\* Lines 680-683: a span is appended unless its spanID has been seen.
RECURSIVE AppendUnseen(_, _)
AppendUnseen(all_spans, subtree_spans) ==
    IF subtree_spans = <<>> THEN all_spans
    ELSE AppendUnseen(IF Head(subtree_spans) \in Range(all_spans) THEN all_spans
                      ELSE Append(all_spans, Head(subtree_spans)),
                      Tail(subtree_spans))

\* Lines 673-683: all_spans of one cluster: the parent span, then the
\* subtrees of the members in cluster order.
RECURSIVE AllSpansFrom(_, _)
AllSpansFrom(all_spans, members) ==
    IF members = <<>> THEN all_spans
    ELSE AllSpansFrom(AppendUnseen(all_spans,
                                   get_subtree_spans(hierarchy, Head(members).span)),
                      Tail(members))

ExportedSpans(c) == AllSpansFrom(<<c.parent>>, c.members)

\* Lines 658-660.
TotalSubtreeSpans(c) == SumSeq([m \in 1..Len(c.members) |-> c.members[m].count])
SpansPerSubtree(c) == TotalSubtreeSpans(c) \div Len(c.members)

\* Line 731: subtree.index of the span at position span_idx (0 is the parent).
SubtreeIndex(c, span_idx) == (span_idx - 1) \div SpansPerSubtree(c)

\* The spans of the subtree of a span: itself and the spans it is an ancestor of.
SubtreeSet(id) == {id} \cup {y \in SpanIds : id \in Range(Ancestors(y))}

\* C30: for every returned cluster the recorded counts are equal, so
\* spans_per_subtree times the cluster size is the total; the exported spans
\* are the parent span followed by the spans of the members' subtrees, each
\* once and none else; and the subtree.index of every span after the parent
\* is the position (from 0) of the member whose subtree holds it.
C30_ExportCountsAndIndex ==
    pc = "done" =>
        \A c \in ReturnedClusters :
            LET all_spans == ExportedSpans(c)
                size == Len(c.members)
            IN /\ \A m \in 1..size : c.members[m].count = c.members[1].count
               /\ SpansPerSubtree(c) * size = TotalSubtreeSpans(c)
               /\ all_spans[1] = c.parent
               /\ Len(all_spans) = 1 + TotalSubtreeSpans(c)
               /\ \A i \in 1..Len(all_spans), j \in 1..Len(all_spans) :
                     all_spans[i] = all_spans[j] => i = j
               /\ Range(all_spans)
                     = {c.parent} \cup UNION {SubtreeSet(c.members[m].span) : m \in 1..size}
               /\ \A p \in 2..Len(all_spans) :
                     /\ SubtreeIndex(c, p - 1) \in 0..(size - 1)
                     /\ all_spans[p] \in SubtreeSet(c.members[SubtreeIndex(c, p - 1) + 1].span)

\* A cluster was returned whose members have subtrees of four spans: the
\* export holds nine spans, the last with subtree.index 1.
C30_Witness ==
    /\ pc = "done"
    /\ \E c \in ReturnedClusters :
          /\ Len(c.members) = 2
          /\ c.members[1].count = 4
          /\ Len(ExportedSpans(c)) = 9
          /\ SubtreeIndex(c, 8) = 1

====
